---- MODULE Spec2Model ----
(***************************************************************************)
(* Lake NDVI trend analysis: the per-pixel OLS trend estimator             *)
(* (analysis.py ols_slope), the buffer / zonal-mean orchestration          *)
(* (analysis.py run_analysis), the acquisition entry point                 *)
(* (data_processing.py get_data_for_location) and the two programs that    *)
(* drive them (app.py, analysis.py __main__).                              *)
(*                                                                         *)
(* Floating point values are modelled exactly: a float is a record         *)
(* [k, n, d] with k = "num" (the rational n/d in lowest terms, d > 0),     *)
(* k = "nan", k = "inf" (sign n) or k = "none" (Python None).  Rounding    *)
(* error is not modelled.  A raster (rows x cols) is flattened to a        *)
(* function over pixel numbers 1..P; an array (time x rows x cols) is a    *)
(* record [T, P, v] with v[i][p] the value of slice i (1-based) at p.      *)
(***************************************************************************)
EXTENDS Integers, Sequences, FiniteSets, TLC

\* ---------------------------------------------------------------- bounds
\* Longest stack handed directly to ols_slope.
MaxT == 4
\* Input samples are the integers 0..MaxVal, or missing.
MaxVal == 2
\* Pixels of the one-row raster handed to run_analysis.
NPix == 2
\* Width of a raster pixel in metres (the raster transform's scale).
PixelSize == 300
\* Per-slice increase of a trending pixel in the stacks handed to run_analysis.
SeriesStep == 1
\* Longest list of buffer distances handed directly to run_analysis.
MaxDists == 2

\* ---------------------------------------------------------------- floats
NaN == [k |-> "nan", n |-> 0, d |-> 1]

None == [k |-> "none", n |-> 0, d |-> 1]

Inf(s) == [k |-> "inf", n |-> s, d |-> 1]

Abs(x) == IF x < 0 THEN -x ELSE x

RECURSIVE GCD(_, _)
GCD(a, b) == IF b = 0 THEN a ELSE GCD(b, a % b)

\* The rational n/d (d # 0) in lowest terms with a positive denominator.
Rat(n, d) ==
    LET g == GCD(Abs(n), Abs(d))
        s == IF d < 0 THEN -1 ELSE 1
    IN  [k |-> "num", n |-> (s * n) \div g, d |-> (s * d) \div g]

Zero == Rat(0, 1)

isnan(x) == x.k = "nan"

\* IEEE arithmetic on finite values and NaN (an infinity arises only in Div).
Add(a, b) ==
    IF a.k = "num" /\ b.k = "num" THEN Rat(a.n * b.d + b.n * a.d, a.d * b.d) ELSE NaN

Sub(a, b) ==
    IF a.k = "num" /\ b.k = "num" THEN Rat(a.n * b.d - b.n * a.d, a.d * b.d) ELSE NaN

Mul(a, b) ==
    IF a.k = "num" /\ b.k = "num" THEN Rat(a.n * b.n, a.d * b.d) ELSE NaN

\* num / den elementwise: x/0 is +-inf, 0/0 is NaN (numpy warns, it does not raise).
Div(a, b) ==
    IF a.k # "num" \/ b.k # "num" THEN NaN
    ELSE IF b.n # 0 THEN Rat(a.n * b.d, a.d * b.n)
    ELSE IF a.n = 0 THEN NaN
    ELSE Inf(IF a.n > 0 THEN 1 ELSE -1)

\* np.nansum along the time axis: NaN entries count as 0; the empty sum is 0.
RECURSIVE nansum(_)
nansum(col) ==
    IF Len(col) = 0 THEN Zero
    ELSE IF isnan(Head(col)) THEN nansum(Tail(col))
    ELSE Add(Head(col), nansum(Tail(col)))

\* Number of non-NaN entries.
RECURSIVE nancount(_)
nancount(col) ==
    IF Len(col) = 0 THEN 0
    ELSE (IF isnan(Head(col)) THEN 0 ELSE 1) + nancount(Tail(col))

\* np.nanmean along the time axis: NaN when no entry is valid (numpy warns).
nanmean(col) ==
    IF nancount(col) = 0 THEN NaN ELSE Div(nansum(col), Rat(nancount(col), 1))

\* ---------------------------------------------------------------- arrays
\* The values a sample of the input takes.
Samples == {NaN} \cup {Rat(v, 1) : v \in 0..MaxVal}

\* The array of shape (T, P) holding f[i][p] at slice i, pixel p.
Array(T, P, f) == [T |-> T, P |-> P, v |-> f]

\* The time series of pixel p, as a sequence.
Column(stack, p) == [i \in 1..stack.T |-> stack.v[i][p]]

\* ------------------------------------------------------------- ols_slope
\* t = np.arange(stack.shape[0]): the time index of slice i (1-based) is i-1.
TimeIndex(stack) == [i \in 1..stack.T |-> Rat(i - 1, 1)]

\* A denominator summed over t ** 2 instead of t_d ** 2 (a mutation of OlsDen).
OlsDenNoDemean(stack, p) ==
    LET t == TimeIndex(stack)
    IN  nansum([i \in 1..stack.T |-> Mul(t[i], t[i])])

\* den = np.nansum(t_d ** 2, axis=0) for pixel p: t_d = t - t_mean is a number at
\* EVERY slice once the pixel has a valid sample, so every slice is summed.
OlsDen(stack, p) ==
    LET t      == TimeIndex(stack)
        mask   == [i \in 1..stack.T |-> ~isnan(stack.v[i][p])]
        t_mean == nanmean([i \in 1..stack.T |-> IF mask[i] THEN t[i] ELSE NaN])
        t_d    == [i \in 1..stack.T |-> Sub(t[i], t_mean)]
    IN  nansum([i \in 1..stack.T |-> Mul(t_d[i], t_d[i])])

\* num = np.nansum(t_d * y_d, axis=0) for pixel p: y_d is NaN at a missing slice,
\* so only valid slices are summed.
OlsNum(stack, p) ==
    LET t      == TimeIndex(stack)
        mask   == [i \in 1..stack.T |-> ~isnan(stack.v[i][p])]
        t_mean == nanmean([i \in 1..stack.T |-> IF mask[i] THEN t[i] ELSE NaN])
        y_mean == nanmean(Column(stack, p))
        t_d    == [i \in 1..stack.T |-> Sub(t[i], t_mean)]
        y_d    == [i \in 1..stack.T |-> Sub(stack.v[i][p], y_mean)]
    IN  nansum([i \in 1..stack.T |-> Mul(t_d[i], y_d[i])])

\* A guard that fills 0 where den is 0 (a mutation of ols_slope).
ols_slope_zero_fill(stack) ==
    [p \in 1..stack.P |->
        IF OlsDen(stack, p) = Zero THEN Zero
        ELSE Div(OlsNum(stack, p), OlsDen(stack, p))]

\* slope = np.where(den == 0, np.nan, num / den); the function has no raise.
ols_slope(stack) ==
    [p \in 1..stack.P |->
        IF OlsDen(stack, p) = Zero THEN NaN
        ELSE Div(OlsNum(stack, p), OlsDen(stack, p))]


\* ------------------------------------------------------ data_processing
DRY_MONTHS == <<1, 2, 3, 4>>

MONSOON_MONTHS == <<7, 8, 9, 10>>

MONTH_ORDER == DRY_MONTHS \o MONSOON_MONTHS

Range(seq) == {seq[j] : j \in 1..Len(seq)}

\* The parameters get_data_for_location declares (it takes no **kwargs).
GetDataParams == {"lon", "lat", "start_date", "end_date"}

\* The series a pixel shows over the four slices of one index parity: never
\* observed, constant, or rising by SeriesStep per slice.
ParitySeries ==
    {[j \in 1..4 |-> NaN]} \cup
    {[j \in 1..4 |-> Rat(b * (j - 1), 1)] : b \in {0, SeriesStep}}

\* The 8-slice stack over NPix pixels in which pixel p shows the series ev[p] on
\* the even-indexed slices (0, 2, 4, 6) and od[p] on the odd-indexed ones.
Interleave(ev, od) ==
    Array(8, NPix, [i \in 1..8 |-> [p \in 1..NPix |->
                       IF i % 2 = 1 THEN ev[p][(i + 1) \div 2] ELSE od[p][i \div 2]]])

PixelSeries == [1..NPix -> ParitySeries]

\* What the world hands to one acquisition: whether the miner initialises, what
\* fetch does, the calendar months that have scenes and whether the composite
\* computes.
Conditions ==
    [miner : {"ok", "raise"},
     fetch : {"ok", "none", "no_B04", "raise"},
     months : {Range(MONTH_ORDER) \ M : M \in {{}} \cup {{m} : m \in Range(MONTH_ORDER)}},
     compute : {"ok", "raise"}]

NoResult == [data |-> None, profile |-> None, months |-> <<>>]

\* An acquisition that returns the months it found when one has no scene,
\* instead of failing or filling the gap (a mutation of get_data_for_location).
get_data_for_location_keeps_gaps(env, values) ==
    IF env.miner = "raise" THEN NoResult
    ELSE IF env.fetch # "ok" THEN NoResult
    ELSE IF env.compute = "raise" THEN NoResult
    ELSE LET found == SelectSeq(MONTH_ORDER, LAMBDA m : m \in env.months)
         IN  [data    |-> Array(Len(found), values.P,
                                [i \in 1..Len(found) |-> values.v[i]]),
              profile |-> [transform |-> PixelSize, count |-> Len(found)],
              months  |-> found]

\* get_data_for_location: (None, None) on every failure.  monthly_ndvi.sel(
\* month=MONTH_ORDER) raises KeyError when a month has no scene, which the
\* enclosing except turns into (None, None); the composite therefore always has
\* the 8 slices of MONTH_ORDER, in that order.  "months" is the month coordinate
\* of the returned slices (the numpy array itself no longer carries it); values
\* holds the monthly means, slice i being the mean of month MONTH_ORDER[i].
get_data_for_location(env, values) ==
    IF env.miner = "raise" THEN NoResult
    ELSE IF env.fetch # "ok" THEN NoResult
    ELSE IF ~(Range(MONTH_ORDER) \subseteq env.months) THEN NoResult
    ELSE IF env.compute = "raise" THEN NoResult
    ELSE [data    |-> values,
          profile |-> [transform |-> PixelSize, count |-> Len(MONTH_ORDER)],
          months  |-> MONTH_ORDER]

\* ------------------------------------------------------------- analysis
\* A dry split that takes the first four slices (a mutation of DryIndex).
DryIndexFirstFour == <<0, 1, 2, 3>>

\* The fixed index lists of the seasonal split (0-based, as in the code).
DryIndex == <<0, 2, 4, 6>>

MonsoonIndex == <<1, 3, 5, 7>>

\* ndvi_data[index, :, :] raises IndexError when an index is out of range.
InRange(data, index) == \A j \in 1..Len(index) : index[j] < data.T

TakeSlices(data, index) ==
    [T |-> Len(index), P |-> data.P, v |-> [j \in 1..Len(index) |-> data.v[index[j] + 1]]]

\* The distances a caller may pass: metres, or a non-finite number, for which
\* shapely's buffer() raises ValueError.
DistOptions == {Rat(100, 1), Rat(250, 1), Rat(500, 1), Inf(1)}

\* A request lists distinct distances, in any order.
Distinct(dists) == \A a, b \in 1..Len(dists) : dists[a] = dists[b] => a = b

BUFFER_DISTS_TEST ==
    <<Rat(100, 1), Rat(500, 1), Rat(1000, 1), Rat(2000, 1), Rat(3000, 1), Rat(5000, 1)>>

\* pt_utm.geometry.iloc[0].buffer(dist) succeeds only for a finite distance.
CanBuffer(dist) == dist.k = "num"

\* create_buffer_zones: one polygon per distance, in order; it has no try, so the
\* first distance whose buffer raises ends the whole call.
BuffersCreated(dists) == \A j \in 1..Len(dists) : CanBuffer(dists[j])

create_buffer_zones(dists) == [j \in 1..Len(dists) |-> [radius |-> dists[j]]]

\* A footprint that takes the buffer as a ring between half the radius and the
\* radius (a mutation of Footprint).
FootprintRing(geom, transform) ==
    {p \in 1..NPix :
        /\ (2 * p - 1) * transform <= 2 * (geom.radius.n \div geom.radius.d)
        /\ (2 * p - 1) * transform > (geom.radius.n \div geom.radius.d)}

\* The pixels whose centre lies in the polygon (rasterstats' default rule): pixel p
\* of the row spans (p-1)*PixelSize .. p*PixelSize metres east of the centre point.
Footprint(geom, transform) ==
    {p \in 1..NPix : (2 * p - 1) * transform <= 2 * (geom.radius.n \div geom.radius.d)}

RECURSIVE SumPixels(_, _)
SumPixels(S, raster) ==
    IF S = {} THEN Zero
    ELSE LET p == CHOOSE x \in S : TRUE IN Add(raster[p], SumPixels(S \ {p}, raster))

\* A zonal mean that reads 0 when no valid pixel remains (a mutation of zonal_mean).
zonal_mean_zero_when_empty(geom, raster, transform) ==
    LET valid == {p \in Footprint(geom, transform) : ~isnan(raster[p])}
    IN  IF valid = {} THEN Zero
        ELSE Div(SumPixels(valid, raster), Rat(Cardinality(valid), 1))

\* zonal_stats([geom], raster, affine=transform, stats='mean', nodata=np.nan)
\* [0]['mean'] when it does not raise: NaN pixels are masked; the mean of the
\* remaining footprint pixels, or None when none remains.
zonal_mean(geom, raster, transform) ==
    LET valid == {p \in Footprint(geom, transform) : ~isnan(raster[p])}
    IN  IF valid = {} THEN None
        ELSE Div(SumPixels(valid, raster), Rat(Cardinality(valid), 1))

\* The dict appended when both zonal means were computed.
ResultRecord(dist, zd, zm) ==
    [buffer_m |-> dist, ndvi_dry_slope |-> zd, ndvi_monsoon_slope |-> zm]

\* The record with both season fields left out (a mutation of FailedRecord).
FailedRecordOmitsFields(dist) == [buffer_m |-> dist]

\* The dict appended by the except branch.
FailedRecord(dist) ==
    [buffer_m |-> dist, ndvi_dry_slope |-> None, ndvi_monsoon_slope |-> None]

\* pd.DataFrame(list of dicts): one row per dict, in order; the columns are the
\* keys of all the dicts (none at all for an empty list); a key a dict lacks
\* reads NaN, and None becomes NaN in a column that holds a number.
DataFrame(records) ==
    LET cols == UNION {DOMAIN records[j] : j \in 1..Len(records)}
        numeric(c) == \E j \in 1..Len(records) :
                          c \in DOMAIN records[j] /\ records[j][c].k = "num"
        cell(j, c) == IF c \notin DOMAIN records[j] THEN NaN
                      ELSE IF records[j][c].k = "none" /\ numeric(c) THEN NaN
                      ELSE records[j][c]
    IN  [columns |-> cols,
         rows    |-> [j \in 1..Len(records) |-> [c \in cols |-> cell(j, c)]]]

\* ------------------------------------------------------------------ state
VARIABLES
    olsPc,            \* a direct call of ols_slope: "idle", "call", "returned", "raised"
    stack,            \* its argument
    slope,            \* its result (None before it returns)
    caller,           \* who runs: "app", "analysis_main", or "direct" (a bare call
                      \* of run_analysis), "none" when only ols_slope is called
    pc,               \* where the caller is
    exc,              \* the exception that ended the run, "none" otherwise
    called,           \* the functions of the repository entered so far
    shown,            \* what the caller has reported: "nothing", "info", "error", "results"
    ndvi_data,        \* the stack returned by acquisition / passed to run_analysis
    raster_profile,   \* its profile
    slice_months,     \* the calendar month of each slice of ndvi_data (<<>> if unknown)
    buffer_dists,     \* the distances passed to run_analysis
    slope_dry,        \* run_analysis locals
    slope_monsoon,
    buffers_geom,
    analysis_results,
    idx,              \* position of the zip loop (1-based)
    zs_dry,
    zs_monsoon,
    last_outcome,     \* how the latest loop iteration went
    results_df        \* the DataFrame run_analysis returned

olsVars == <<olsPc, stack, slope>>

runVars == <<caller, pc, exc, called, shown, ndvi_data, raster_profile, slice_months,
             buffer_dists, slope_dry, slope_monsoon, buffers_geom, analysis_results,
             idx, zs_dry, zs_monsoon, last_outcome, results_df>>

vars == <<olsVars, runVars>>

EmptyArray == [T |-> 0, P |-> 0, v |-> <<>>]

\* The locals of run_analysis before it runs.
LocalsUnset ==
    /\ slope_dry = <<>>
    /\ slope_monsoon = <<>>
    /\ buffers_geom = <<>>
    /\ analysis_results = <<>>
    /\ idx = 0
    /\ zs_dry = None
    /\ zs_monsoon = None
    /\ last_outcome = "none"
    /\ results_df = None

OlsIdle ==
    /\ olsPc = "idle"
    /\ stack = EmptyArray
    /\ slope = None

\* ------------------------------------------- a direct call of ols_slope
\* The argument is a stack of shape (T, 1, 1): ols_slope treats every pixel by
\* itself, and stacks of several pixels are what run_analysis hands to it.
InitOls ==
    /\ olsPc = "call"
    /\ \E T \in 0..MaxT : \E f \in [1..T -> [1..1 -> Samples]] :
           stack = Array(T, 1, f)
    /\ slope = None
    /\ caller = "none"
    /\ pc = "idle"
    /\ exc = "none"
    /\ called = {"ols_slope"}
    /\ shown = "nothing"
    /\ ndvi_data = None
    /\ raster_profile = None
    /\ slice_months = <<>>
    /\ buffer_dists = <<>>
    /\ LocalsUnset

\* The call runs to its return statement: no statement of ols_slope raises for an
\* array of floats, whatever its length.
CallOlsSlope ==
    /\ olsPc = "call"
    /\ slope' = ols_slope(stack)
    /\ olsPc' = "returned"
    /\ UNCHANGED <<stack, runVars>>

NextOls == CallOlsSlope

SpecOls == InitOls /\ [][NextOls]_vars

\* ---------------------------------------------------------- run_analysis
\* Lines 73-91: the seasonal split, the two trend rasters and the buffers.  An
\* exception here (IndexError of the split, ValueError of a buffer) is not caught
\* in run_analysis.
RunAnalysisStart ==
    /\ pc = "run_analysis"
    /\ called' = called \cup {"run_analysis"}
    /\ IF ~(InRange(ndvi_data, DryIndex) /\ InRange(ndvi_data, MonsoonIndex))
       THEN /\ pc' = "raised"
            /\ exc' = "IndexError"
            /\ UNCHANGED <<slope_dry, slope_monsoon, buffers_geom, idx>>
       ELSE /\ slope_dry' = ols_slope(TakeSlices(ndvi_data, DryIndex))
            /\ slope_monsoon' = ols_slope(TakeSlices(ndvi_data, MonsoonIndex))
            /\ IF BuffersCreated(buffer_dists)
               THEN /\ buffers_geom' = create_buffer_zones(buffer_dists)
                    /\ idx' = 1
                    /\ pc' = "zonal_loop"
                    /\ exc' = "none"
               ELSE /\ pc' = "raised"
                    /\ exc' = "ValueError"
                    /\ UNCHANGED <<buffers_geom, idx>>
    /\ UNCHANGED <<olsVars, caller, shown, ndvi_data, raster_profile, slice_months,
                   buffer_dists, analysis_results, zs_dry, zs_monsoon, last_outcome,
                   results_df>>

\* Lines 95-112: one iteration of the zip loop.  Either zonal_stats call may
\* raise; one try encloses both calls and the append, and its except appends the
\* record with both season fields None.
ZonalIteration ==
    /\ pc = "zonal_loop"
    /\ idx <= Len(buffer_dists)
    /\ \E outcome \in {"ok", "dry_raised", "monsoon_raised"} :
        LET dist == buffer_dists[idx]
            geom == buffers_geom[idx]
            zd   == zonal_mean(geom, slope_dry, raster_profile.transform)
            zm   == zonal_mean(geom, slope_monsoon, raster_profile.transform)
        IN  /\ zs_dry' = IF outcome = "dry_raised" THEN zs_dry ELSE zd
            /\ zs_monsoon' = IF outcome = "ok" THEN zm ELSE zs_monsoon
            /\ analysis_results' =
                   Append(analysis_results,
                          IF outcome = "ok" THEN ResultRecord(dist, zd, zm)
                          ELSE FailedRecord(dist))
            /\ last_outcome' = outcome
    /\ idx' = idx + 1
    /\ UNCHANGED <<olsVars, caller, pc, exc, called, shown, ndvi_data, raster_profile,
                   slice_months, buffer_dists, slope_dry, slope_monsoon, buffers_geom,
                   results_df>>

\* Lines 114-115: the loop is exhausted; return pd.DataFrame(analysis_results).
RunAnalysisReturn ==
    /\ pc = "zonal_loop"
    /\ idx > Len(buffer_dists)
    /\ results_df' = DataFrame(analysis_results)
    /\ pc' = "returned"
    /\ UNCHANGED <<olsVars, caller, exc, called, shown, ndvi_data, raster_profile,
                   slice_months, buffer_dists, slope_dry, slope_monsoon, buffers_geom,
                   analysis_results, idx, zs_dry, zs_monsoon, last_outcome>>

\* A bare call run_analysis(ndvi_data, raster_profile, lon, lat, buffer_dists).
InitRun ==
    /\ OlsIdle
    /\ caller = "direct"
    /\ pc = "run_analysis"
    /\ exc = "none"
    /\ called = {}
    /\ shown = "nothing"
    /\ \E ev \in PixelSeries, od \in PixelSeries : ndvi_data = Interleave(ev, od)
    /\ raster_profile = [transform |-> PixelSize, count |-> 8]
    /\ slice_months = <<>>
    /\ \E n \in 0..MaxDists : \E dists \in [1..n -> DistOptions] :
           /\ Distinct(dists)
           /\ buffer_dists = dists
    /\ LocalsUnset

NextRun == RunAnalysisStart \/ ZonalIteration \/ RunAnalysisReturn

SpecRun == InitRun /\ [][NextRun]_vars

\* ------------------------------------------------- the two programs
\* The app (a Streamlit script run) and analysis.py run as a script.
Init ==
    /\ OlsIdle
    /\ caller \in {"app", "analysis_main"}
    /\ pc = IF caller = "app" THEN "ui" ELSE "start"
    /\ exc = "none"
    /\ called = {}
    /\ shown = "nothing"
    /\ ndvi_data = None
    /\ raster_profile = None
    /\ slice_months = <<>>
    /\ buffer_dists = <<>>
    /\ LocalsUnset

\* app.py 48-75, 129-130: the widgets are read; the run branch is taken only when
\* the button was pressed and lat and lon are set, otherwise the hint is shown.
AppScript ==
    /\ caller = "app"
    /\ pc = "ui"
    /\ \E pressed \in BOOLEAN, resolved \in BOOLEAN :
        IF pressed /\ resolved
        THEN /\ \E n \in 0..MaxDists : \E dists \in [1..n -> DistOptions \ {Inf(1)}] :
                   /\ Distinct(dists)
                   /\ buffer_dists' = dists
             /\ pc' = "start"
             /\ shown' = shown
        ELSE /\ pc' = "done"
             /\ shown' = "info"
             /\ UNCHANGED buffer_dists
    /\ UNCHANGED <<olsVars, caller, exc, called, ndvi_data, raster_profile, slice_months,
                   slope_dry, slope_monsoon, buffers_geom, analysis_results, idx,
                   zs_dry, zs_monsoon, last_outcome, results_df>>

\* The keyword arguments each caller passes to get_data_for_location
\* (app.py 89-91, analysis.py 126).
KeywordsPassed(who) == IF who = "app" THEN {"progress_callback"} ELSE {}

\* The call of get_data_for_location.  A keyword the function does not declare
\* makes the call itself raise TypeError, before the body runs; neither caller
\* catches it.
Acquire ==
    /\ pc = "start"
    /\ called' = called \cup {"get_data_for_location"}
    /\ IF KeywordsPassed(caller) \subseteq GetDataParams
       THEN \E env \in Conditions, ev \in PixelSeries, od \in PixelSeries :
                LET got == get_data_for_location(env, Interleave(ev, od))
                IN  /\ ndvi_data' = got.data
                    /\ raster_profile' = got.profile
                    /\ slice_months' = got.months
                    /\ pc' = "acquired"
                    /\ exc' = exc
       ELSE /\ pc' = "raised"
            /\ exc' = "TypeError"
            /\ UNCHANGED <<ndvi_data, raster_profile, slice_months>>
    /\ UNCHANGED <<olsVars, caller, shown, buffer_dists, slope_dry, slope_monsoon,
                   buffers_geom, analysis_results, idx, zs_dry, zs_monsoon,
                   last_outcome, results_df>>

\* app.py 93-103, 125-128 and analysis.py 128-130, 136-137: run_analysis is
\* called when the data is not None, otherwise the failure is reported.
AfterAcquire ==
    /\ pc = "acquired"
    /\ IF ndvi_data # None
       THEN /\ pc' = "run_analysis"
            /\ buffer_dists' = IF caller = "app" THEN buffer_dists ELSE BUFFER_DISTS_TEST
            /\ shown' = shown
       ELSE /\ pc' = "done"
            /\ shown' = "error"
            /\ UNCHANGED buffer_dists
    /\ UNCHANGED <<olsVars, caller, exc, called, ndvi_data, raster_profile, slice_months,
                   slope_dry, slope_monsoon, buffers_geom, analysis_results, idx,
                   zs_dry, zs_monsoon, last_outcome, results_df>>

\* app.py 104-123 and analysis.py 132-135: the returned frame is displayed; the
\* app also calls the two plotting functions.
Finish ==
    /\ pc = "returned"
    /\ caller \in {"app", "analysis_main"}
    /\ shown' = "results"
    /\ called' = IF caller = "app"
                 THEN called \cup {"plot_distance_decay", "plot_seasonal_contrast_bar"}
                 ELSE called
    /\ pc' = "done"
    /\ UNCHANGED <<olsVars, caller, exc, ndvi_data, raster_profile, slice_months,
                   buffer_dists, slope_dry, slope_monsoon, buffers_geom,
                   analysis_results, idx, zs_dry, zs_monsoon, last_outcome, results_df>>

Next ==
    \/ AppScript
    \/ Acquire
    \/ AfterAcquire
    \/ RunAnalysisStart
    \/ ZonalIteration
    \/ RunAnalysisReturn
    \/ Finish

Spec == Init /\ [][Next]_vars

\* ------------------------------------------------ claims about ols_slope
\* The slices at which pixel p of the stack is not missing.
ValidSlices(stk, p) == {i \in 1..stk.T : ~isnan(stk.v[i][p])}

RECURSIVE SumOver(_, _)
SumOver(S, f) ==
    IF S = {} THEN Zero
    ELSE LET i == CHOOSE x \in S : TRUE IN Add(f[i], SumOver(S \ {i}, f))

\* The textbook OLS slope of pixel p over its valid slices only,
\* (n*Sty - St*Sy) / (n*Stt - St*St) with every sum over the valid slices.
RefSlope(stk, p) ==
    LET V   == ValidSlices(stk, p)
        n   == Rat(Cardinality(V), 1)
        t   == [i \in 1..stk.T |-> Rat(i - 1, 1)]
        y   == [i \in 1..stk.T |-> stk.v[i][p]]
        St  == SumOver(V, t)
        Sy  == SumOver(V, y)
        Stt == SumOver(V, [i \in 1..stk.T |-> Mul(t[i], t[i])])
        Sty == SumOver(V, [i \in 1..stk.T |-> Mul(t[i], y[i])])
    IN  Div(Sub(Mul(n, Sty), Mul(St, Sy)), Sub(Mul(n, Stt), Mul(St, St)))

\* C1: at every pixel with at least 2 non-missing samples, ols_slope returns the
\* OLS slope computed over that pixel's non-missing slices only, whatever the
\* pattern of missing slices.
C1_SlopeIsOlsOverValidSlices ==
    olsPc = "returned" =>
        \A p \in 1..stack.P :
            Cardinality(ValidSlices(stack, p)) >= 2 => slope[p] = RefSlope(stack, p)

\* C2: for a stack of at least 2 slices, a pixel with 0 or exactly 1 non-missing
\* sample gets the missing-value sentinel NaN, never 0.0 or another number.
C2_FewSamplesGiveNaN ==
    (olsPc = "returned" /\ stack.T >= 2) =>
        \A p \in 1..stack.P :
            Cardinality(ValidSlices(stack, p)) <= 1 => isnan(slope[p])

\* C7: a call of ols_slope with fewer than 2 time slices ends in an error
\* signalled to the caller, not in a returned trend raster.
C7_ShortStackRejected ==
    (olsPc # "call" /\ stack.T < 2) => olsPc = "raised"

\* ---------------------------------------------- claims about run_analysis
\* The season columns of a record / of the returned frame.
SeasonFields == {"ndvi_dry_slope", "ndvi_monsoon_slope"}

\* A field is missing when it is None or NaN.
IsMissing(x) == x.k \in {"none", "nan"}

\* C3: in the pipeline get_data_for_location -> run_analysis, every slice of the
\* dry sub-stack (indices 0, 2, 4, 6) is the composite of a dry month (1-4) and
\* every slice of the monsoon sub-stack (indices 1, 3, 5, 7) that of a monsoon
\* month (7-10).
C3_ParitySplitMatchesSeasons ==
    ("run_analysis" \in called /\ slice_months # <<>> /\ exc # "IndexError") =>
        /\ \A j \in 1..Len(DryIndex) :
               slice_months[DryIndex[j] + 1] \in Range(DRY_MONTHS)
        /\ \A j \in 1..Len(MonsoonIndex) :
               slice_months[MonsoonIndex[j] + 1] \in Range(MONSOON_MONTHS)

\* C4: when the monsoon zonal mean of a buffer fails after its dry zonal mean was
\* computed, the buffer's record holds the computed dry value and missing only
\* in the monsoon field.
C4_FailureIsolatedPerSeason ==
    (pc \in {"zonal_loop", "returned"} /\ last_outcome = "monsoon_raised") =>
        LET rec == analysis_results[Len(analysis_results)]
        IN  /\ rec.ndvi_dry_slope = zs_dry
            /\ rec.ndvi_monsoon_slope = None

\* The list holds exactly one pathological (non-finite) distance.
OnePathological ==
    Cardinality({j \in 1..Len(buffer_dists) : ~CanBuffer(buffer_dists[j])}) = 1

\* C5: with one pathological distance in the list, whose buffer cannot be built,
\* run_analysis still returns; the pathological distance's record has both season
\* fields missing and every other record is what it is without the failure.
C5_PathologicalDistanceIsolated ==
    (caller = "direct" /\ OnePathological) =>
        /\ pc # "raised"
        /\ pc = "returned" =>
            \A j \in 1..Len(buffer_dists) :
                IF ~CanBuffer(buffer_dists[j])
                THEN analysis_results[j] = FailedRecord(buffer_dists[j])
                ELSE analysis_results[j] \in
                        {FailedRecord(buffer_dists[j]),
                         ResultRecord(buffer_dists[j],
                             zonal_mean([radius |-> buffer_dists[j]], slope_dry,
                                        raster_profile.transform),
                             zonal_mean([radius |-> buffer_dists[j]], slope_monsoon,
                                        raster_profile.transform))}

\* C6: whatever zonal computations fail, run_analysis returns exactly one record
\* per requested distance, in the order of the input list, each with the three
\* fields buffer_m, ndvi_dry_slope and ndvi_monsoon_slope, a season field being a
\* number or an explicit missing marker; no exception leaves the zonal loop.
C6_OneRecordPerDistance ==
    /\ pc = "zonal_loop" => Len(analysis_results) = idx - 1
    /\ pc = "raised" => idx = 0
    /\ pc = "returned" =>
        /\ Len(results_df.rows) = Len(buffer_dists)
        /\ \A j \in 1..Len(buffer_dists) :
            /\ DOMAIN results_df.rows[j] = {"buffer_m"} \cup SeasonFields
            /\ results_df.rows[j].buffer_m = buffer_dists[j]
            /\ \A c \in SeasonFields :
                   results_df.rows[j][c].k \in {"num", "none", "nan"}

\* A run returned for an unsorted list of two distances, one whose zonal
\* computation failed and one whose means were computed.
C6_Witness ==
    /\ pc = "returned"
    /\ caller = "direct"
    /\ Len(buffer_dists) = 2
    /\ buffer_dists[1].n > buffer_dists[2].n
    /\ analysis_results[1] = FailedRecord(buffer_dists[1])
    /\ analysis_results[2].ndvi_dry_slope.k = "num"

\* Every trend-raster pixel of the polygon's footprint is NaN (or it has none).
NoValidPixel(geom, raster) ==
    \A p \in Footprint(geom, raster_profile.transform) : isnan(raster[p])

\* C9: when every trend-raster pixel in a buffer's footprint is NaN, or the
\* footprint holds no pixel, the season field of the buffer's record is missing,
\* never 0 or another number.
C9_AllMissingFootprintIsMissing ==
    pc \in {"zonal_loop", "returned"} =>
        \A j \in 1..Len(analysis_results) :
            /\ NoValidPixel(buffers_geom[j], slope_dry) =>
                   IsMissing(analysis_results[j].ndvi_dry_slope)
            /\ NoValidPixel(buffers_geom[j], slope_monsoon) =>
                   IsMissing(analysis_results[j].ndvi_monsoon_slope)
            /\ pc = "returned" =>
                /\ NoValidPixel(buffers_geom[j], slope_dry) =>
                       IsMissing(results_df.rows[j].ndvi_dry_slope)
                /\ NoValidPixel(buffers_geom[j], slope_monsoon) =>
                       IsMissing(results_df.rows[j].ndvi_monsoon_slope)

\* Both zonal means of a buffer were computed; its footprint holds pixels, all of
\* them NaN in the dry trend raster, and the monsoon mean is a number.
C9_Witness ==
    /\ pc = "returned"
    /\ \E j \in 1..Len(analysis_results) :
        /\ Footprint(buffers_geom[j], raster_profile.transform) # {}
        /\ NoValidPixel(buffers_geom[j], slope_dry)
        /\ analysis_results[j].ndvi_monsoon_slope.k = "num"
        /\ analysis_results[j].ndvi_dry_slope = None

FootprintOf(j) == Footprint(buffers_geom[j], raster_profile.transform)

FullyObserved(data) == \A i \in 1..data.T, p \in 1..data.P : ~isnan(data.v[i][p])

\* The four dry-split values of pixel p (slices 0, 2, 4, 6).
DryValues(data, p) == [j \in 1..4 |-> data.v[2 * j - 1][p]]

\* The dry sub-stack reduced to pixel p alone.
DryPixelAlone(data, p) ==
    Array(4, 1, [j \in 1..4 |-> [q \in 1..1 |-> data.v[2 * j - 1][p]]])

\* C12: for an 8-slice stack with no missing value, the dry trend raster is
\* exactly 0 at a pixel whose dry values (slices 0, 2, 4, 6) are constant and d at
\* a pixel whose dry values rise by d per step; the slope of a pixel is that of
\* its own time series alone.  Checked where run_analysis has just computed the
\* trend rasters (lines 86-87); the loop does not change them.
C12_DrySlopeOfLinearSeries ==
    (caller = "direct" /\ pc = "zonal_loop" /\ idx = 1 /\ FullyObserved(ndvi_data)) =>
        \A p \in 1..ndvi_data.P :
            LET y == DryValues(ndvi_data, p)
                d == Sub(y[2], y[1])
            IN  /\ (\A j \in 1..3 : Sub(y[j + 1], y[j]) = d) => slope_dry[p] = d
                /\ (\A j \in 1..4 : y[j] = y[1]) => slope_dry[p] = Zero
                /\ slope_dry[p] = ols_slope(DryPixelAlone(ndvi_data, p))[1]

\* A fully observed stack with one pixel constant and another rising over the
\* dry slices.
C12_Witness ==
    /\ caller = "direct"
    /\ pc = "zonal_loop"
    /\ idx = 1
    /\ FullyObserved(ndvi_data)
    /\ \E p, q \in 1..ndvi_data.P :
        /\ slope_dry[p] = Zero
        /\ slope_dry[q] = Rat(SeriesStep, 1)
        /\ DryValues(ndvi_data, q)[4] = Rat(3 * SeriesStep, 1)

\* C13: for a stack of finite or missing samples ols_slope does not raise and
\* outputs no infinity; at every pixel whose denominator is exactly zero the
\* output is NaN.
C13_ZeroDenominatorGivesNaN ==
    /\ olsPc # "raised"
    /\ olsPc = "returned" =>
        \A p \in 1..stack.P :
            /\ slope[p].k \in {"num", "nan"}
            /\ OlsDen(stack, p) = Zero => isnan(slope[p])

\* A returned call on a one-slice stack whose sample is valid: den is 0.
C13_Witness ==
    /\ olsPc = "returned"
    /\ stack.T = 1
    /\ ~isnan(stack.v[1][1])
    /\ OlsDen(stack, 1) = Zero
    /\ isnan(slope[1])

\* ------------------------------------------ claims about acquisition
\* C14: once 'Run Analysis' is pressed with resolved coordinates, the app's call
\* of get_data_for_location (with its progress observer) is accepted, and the
\* flow ends with the results displayed or with the 'Analysis failed' error
\* shown, never with an exception raised by the acquisition call itself.
C14_AppCallAccepted ==
    (caller = "app" /\ "get_data_for_location" \in called) =>
        /\ exc # "TypeError"
        /\ pc = "raised" => "run_analysis" \in called
        /\ pc = "done" => shown \in {"results", "error"}

\* The world made one of the three guarded steps of the acquisition fail.
StepFails(env) == env.miner = "raise" \/ env.fetch # "ok" \/ env.compute = "raise"

\* C15: get_data_for_location returns (None, None) or a pair of non-None values;
\* returned data has exactly 8 slices in the order of MONTH_ORDER and a profile
\* count of 8, so the index lists [0,2,4,6] and [1,3,5,7] are in range; a failure
\* of miner initialisation, of fetching or of composite creation yields
\* (None, None) and no exception.
C15_AcquisitionResultShape ==
    pc = "acquired" =>
        /\ exc = "none"
        /\ \/ ndvi_data = None /\ raster_profile = None
           \/ /\ ndvi_data # None
              /\ raster_profile # None
              /\ ndvi_data.T = 8
              /\ slice_months = MONTH_ORDER
              /\ raster_profile.count = 8
              /\ InRange(ndvi_data, DryIndex)
              /\ InRange(ndvi_data, MonsoonIndex)
              /\ \A env \in Conditions :
                    StepFails(env) => get_data_for_location(env, ndvi_data) = NoResult

\* An acquisition that returned data.
C15_Witness ==
    /\ pc = "acquired"
    /\ "get_data_for_location" \in called
    /\ ndvi_data # None
    /\ raster_profile.count = 8

\* ------------------------------------- claims about season separation
\* The series of every pixel over the even-indexed slices (0, 2, 4, 6) and over
\* the odd-indexed ones (1, 3, 5, 7).
EvenSeries(data) == [p \in 1..data.P |-> [j \in 1..4 |-> data.v[2 * j - 1][p]]]

OddSeries(data) == [p \in 1..data.P |-> [j \in 1..4 |-> data.v[2 * j][p]]]

\* The series the comparison stack shows on the slices of the other parity:
\* no pixel is ever observed there.  The input itself ranges over every stack, so
\* two inputs that agree on one parity are both compared with the same stack.
Unobserved == [p \in 1..NPix |-> [j \in 1..4 |-> NaN]]

\* The trend rasters run_analysis computes when it is given the stack data.
DryTrend(data) == ols_slope(TakeSlices(data, DryIndex))

MonsoonTrend(data) == ols_slope(TakeSlices(data, MonsoonIndex))

\* The j-th record of the run comes from an iteration without zonal failure.
NoZonalFailure(j) ==
    \/ analysis_results[j] # FailedRecord(buffer_dists[j])
    \/ j = Len(analysis_results) /\ last_outcome = "ok"

\* C16: the seasons do not interfere: the dry trend raster of the run is the one
\* run_analysis computes for the stack that agrees with the input on the
\* even-indexed slices and has nothing on the odd-indexed ones, and every
\* record's ndvi_dry_slope is the zonal mean of that raster over the record's
\* buffer (same transform, centre and distances, no zonal failure); so the field
\* is identical for any two inputs that agree on the even-indexed slices,
\* whatever their odd-indexed slices are.  Symmetrically ndvi_monsoon_slope
\* depends only on the odd-indexed slices.
C16_SeasonsDoNotInterfere ==
    (caller = "direct" /\ pc = "returned"
        /\ \A j \in 1..Len(analysis_results) : NoZonalFailure(j)) =>
        /\ DryTrend(Interleave(EvenSeries(ndvi_data), Unobserved)) = slope_dry
        /\ MonsoonTrend(Interleave(Unobserved, OddSeries(ndvi_data))) = slope_monsoon
        /\ \A j \in 1..Len(analysis_results) :
              /\ analysis_results[j].ndvi_dry_slope =
                     zonal_mean(buffers_geom[j], slope_dry, raster_profile.transform)
              /\ analysis_results[j].ndvi_monsoon_slope =
                     zonal_mean(buffers_geom[j], slope_monsoon, raster_profile.transform)

\* A returned run without zonal failure whose last record has a dry trend that is
\* a number and differs from the monsoon trend, on a stack with an observed
\* odd-indexed slice.
C16_Witness ==
    /\ caller = "direct"
    /\ pc = "returned"
    /\ Len(analysis_results) > 0
    /\ \A j \in 1..Len(analysis_results) : NoZonalFailure(j)
    /\ LET rec == analysis_results[Len(analysis_results)]
       IN  /\ rec.ndvi_dry_slope.k = "num"
           /\ rec.ndvi_monsoon_slope.k = "num"
           /\ rec.ndvi_dry_slope # rec.ndvi_monsoon_slope
    /\ \E p \in 1..NPix : ~isnan(ndvi_data.v[2][p])

====
